---- MODULE Spec2Model ----
(***************************************************************************)
(* Model of validated_data.py: the metaclass ValidatedMeta, which checks a *)
(* class body and patches its __init__ to validate its argument, and the   *)
(* factory validated_by, which builds an ObjectProxy subclass with it.     *)
(*                                                                         *)
(* Python values are small integers.  Objects that a caller can hand over  *)
(* as a schema are numbered: their number is their identity.               *)
(***************************************************************************)
EXTENDS Integers, Sequences, FiniteSets, TLC

\* Bounds of the model: classes defined; instances alive under Spec, and
\* under SpecMeta and SpecProxy.
MaxTypes == 2
MaxInstances == 2
MaxProxied == 1

\* Candidate values handed to constructors.
RawValues == {0, 1, 2}

(***************************************************************************)
(* The objects a caller may pass as a schema.  1 and 5 are two distinct    *)
(* but equal schemas.  6 is a plain value that is no schema at all.        *)
(*   1  Schema(And(int, lambda n: n > 0))   accepts v > 0, returns v       *)
(*   2  Schema(Use(lambda n: n // 2))       accepts all, returns v // 2    *)
(*   3  And(<1>, <2>)                       1 then 2 on 1's result         *)
(*   4  Or(<1>, <5>)                        first part that accepts        *)
(*   5  Schema(And(int, lambda n: n > 0))   equal to 1, another object     *)
(*   6  the int 7                           no schema                      *)
(***************************************************************************)
Objects == 1..6

ObjKind(o) ==
    CASE o \in {1, 2, 5} -> "Schema"
      [] o = 3 -> "And"
      [] o = 4 -> "Or"
      [] OTHER -> "int"

Parts(o) ==
    CASE o = 3 -> <<1, 2>>
      [] o = 4 -> <<1, 5>>
      [] OTHER -> <<>>

\* Two objects are equal (==) when they are built alike.
EqualObjects(a, b) == a = b \/ {a, b} = {1, 5}

NoError == [exc |-> "none", schema |-> 0, value |-> 0]
SchemaError(o, v) == [exc |-> "SchemaError", schema |-> o, value |-> v]
AssertionError == [exc |-> "AssertionError", schema |-> 0, value |-> 0]
TypeError == [exc |-> "TypeError", schema |-> 0, value |-> 0]
AttributeError == [exc |-> "AttributeError", schema |-> 0, value |-> 0]

Ok(r) == [ok |-> TRUE, val |-> r, err |-> NoError]
Fail(e) == [ok |-> FALSE, val |-> 0, err |-> e]

\* validate of an atomic schema: the result, or the error it raises.
AtomValidate(o, v) ==
    IF o = 2 THEN Ok(v \div 2)
    ELSE IF v > 0 THEN Ok(v) ELSE Fail(SchemaError(o, v))

\* And: each part validates the result of the one before it.
RECURSIVE AndValidate(_, _)
AndValidate(parts, v) ==
    IF parts = <<>> THEN Ok(v)
    ELSE LET h == AtomValidate(Head(parts), v)
         IN  IF h.ok THEN AndValidate(Tail(parts), h.val) ELSE h

\* Or: the result of the first part that accepts; its own error when none does.
RECURSIVE OrValidate(_, _, _)
OrValidate(o, parts, v) ==
    IF parts = <<>> THEN Fail(SchemaError(o, v))
    ELSE LET h == AtomValidate(Head(parts), v)
         IN  IF h.ok THEN h ELSE OrValidate(o, Tail(parts), v)

\* schema.validate(v)
Validate(o, v) ==
    CASE ObjKind(o) = "Schema" -> AtomValidate(o, v)
      [] ObjKind(o) = "And" -> AndValidate(Parts(o), v)
      [] ObjKind(o) = "Or" -> OrValidate(o, Parts(o), v)
      [] OTHER -> Fail(AttributeError)

(***************************************************************************)
(* Classes.  A class body (the namespace a class statement hands to the    *)
(* metaclass) has or lacks each of __schema__, __name__ and __init__; its  *)
(* __init__ takes `arity' positional parameters besides self and passes    *)
(* its argument on to the initializer of its base, as line 63 does.        *)
(***************************************************************************)
ObjectProxy == 0

Body(hs, s, hn, n, hi, a) ==
    [hasSchema |-> hs, schema |-> s, hasName |-> hn, nameAttr |-> n,
     hasInit |-> hi, arity |-> a]

NoBody == Body(FALSE, 0, FALSE, "", FALSE, 0)

\* Faulty variant: the body's __name__ is not looked at.
ResolvedName_ignored(name, nmspc) == name

\* The name of the new class: the body's __name__ when it has one.
ResolvedName(name, nmspc) ==
    IF nmspc.hasName THEN nmspc.nameAttr ELSE name

\* issubclass(type(schema), cls) for some cls in [Schema, And, Or]
IsSchemaType(schema) == ObjKind(schema) \in {"Schema", "And", "Or"}

Rejected == [ok |-> FALSE, err |-> AssertionError,
             cls |-> [name |-> "", qualname |-> "", base |-> 0, schema |-> 0,
                      hasName |-> FALSE, nameAttr |-> "", arity |-> 0]]

Defined(c) == [ok |-> TRUE, err |-> NoError, cls |-> c]

\* Faulty variant: the assertion of line 15 is missing.
MetaNew_noInitCheck(name, base, nmspc) ==
    IF ~nmspc.hasSchema THEN Rejected
    ELSE IF ~IsSchemaType(nmspc.schema) THEN Rejected
    ELSE Defined([name |-> ResolvedName(name, nmspc),
                  qualname |-> name,
                  base |-> base,
                  schema |-> nmspc.schema,
                  hasName |-> nmspc.hasName,
                  nameAttr |-> nmspc.nameAttr,
                  arity |-> nmspc.arity])

\* ValidatedMeta.__new__(mcs, name, bases, nmspc): the class, or the
\* AssertionError of the first assertion that fails.
MetaNew(name, base, nmspc) ==
    IF ~nmspc.hasSchema THEN Rejected
    ELSE IF ~IsSchemaType(nmspc.schema) THEN Rejected
    ELSE IF ~nmspc.hasInit THEN Rejected
    ELSE Defined([name |-> ResolvedName(name, nmspc),
                  qualname |-> name,
                  base |-> base,
                  schema |-> nmspc.schema,
                  hasName |-> nmspc.hasName,
                  nameAttr |-> nmspc.nameAttr,
                  arity |-> nmspc.arity])

\* ValidatedMeta.__str__
Str(cls) == "<schema-validated data: " \o cls.name \o ">"

(***************************************************************************)
(* The patched initializer.  `args' are the arguments after self, so that  *)
(* len(args) == 2 in the code is Len(args) = 1 here.  The result tells     *)
(* what was raised, which schemas' validate was called and which classes'  *)
(* original initializers ran, in order, and the value that                 *)
(* ObjectProxy.__init__ stored as the wrapped one.                         *)
(***************************************************************************)
Raised(e, calls, inits) ==
    [raised |-> e, calls |-> calls, inits |-> inits, wrapped |-> 0]

Wrapped(r, calls, inits) ==
    [raised |-> NoError, calls |-> calls, inits |-> inits, wrapped |-> r]

Before(calls, inits, res) ==
    [res EXCEPT !.calls = calls \o @, !.inits = inits \o @]

RECURSIVE patched(_, _, _)
RECURSIVE old_init(_, _, _)

\* Faulty variant: the patched initializer stores the value itself and never
\* calls the class's own initializer.
old_init_notCalled(ts, t, args) ==
    Wrapped(args[1], <<>>, <<ObjectProxy>>)

\* Faulty variant: the initializer hands its argument to ObjectProxy directly,
\* not to the initializer of its base.
old_init_skipsBase(ts, t, args) ==
    IF Len(args) # ts[t].arity THEN Raised(TypeError, <<>>, <<>>)
    ELSE Wrapped(args[1], <<>>, <<t, ObjectProxy>>)

\* old_init(*args_list): the class's own __init__, which takes cls.arity
\* arguments and calls super().__init__ with its argument.
old_init(ts, t, args) ==
    IF Len(args) # ts[t].arity THEN Raised(TypeError, <<>>, <<>>)
    ELSE IF ts[t].base = ObjectProxy
         THEN Wrapped(args[1], <<>>, <<t, ObjectProxy>>)
         ELSE Before(<<>>, <<t>>, patched(ts, ts[t].base, args))

\* Faulty variant: a validation error is swallowed and the raw value wrapped.
patched_swallows(ts, t, args) ==
    IF Len(args) # 1 THEN Raised(AssertionError, <<>>, <<>>)
    ELSE LET res == Validate(ts[t].schema, args[1])
         IN  IF ~res.ok
             THEN Before(<<ts[t].schema>>, <<>>, old_init(ts, t, args))
             ELSE Before(<<ts[t].schema>>, <<>>, old_init(ts, t, <<res.val>>))

\* Faulty variant: the value is validated, and the raw value passed on.
patched_passesRaw(ts, t, args) ==
    IF Len(args) # 1 THEN Raised(AssertionError, <<>>, <<>>)
    ELSE LET res == Validate(ts[t].schema, args[1])
         IN  IF ~res.ok THEN Raised(res.err, <<ts[t].schema>>, <<>>)
             ELSE Before(<<ts[t].schema>>, <<>>, old_init(ts, t, args))

\* def patched(*args), installed as the class's __init__.
patched(ts, t, args) ==
    IF Len(args) # 1 THEN Raised(AssertionError, <<>>, <<>>)
    ELSE LET res == Validate(ts[t].schema, args[1])
         IN  IF ~res.ok THEN Raised(res.err, <<ts[t].schema>>, <<>>)
             ELSE Before(<<ts[t].schema>>, <<>>, old_init(ts, t, <<res.val>>))

(***************************************************************************)
(* validated_by(schema, name='ValidatedData')                              *)
(***************************************************************************)
Omitted == "<omitted>"

NameParam(nameArg) == IF nameArg = Omitted THEN "ValidatedData" ELSE nameArg

\* Faulty variant: the class keeps an equal copy of the schema.
GenericWrappedData_copies(schema, name) ==
    Body(TRUE, IF schema = 1 THEN 5 ELSE IF schema = 5 THEN 1 ELSE schema,
         TRUE, name, TRUE, 1)

\* The body of class GenericWrappedData, lines 59 to 63.
GenericWrappedData(schema, name) == Body(TRUE, schema, TRUE, name, TRUE, 1)

\* Faulty variant: a type made before for an equal schema and the same name
\* is returned again.
validated_by_cached(ts, schema, nameArg) ==
    LET r == MetaNew("GenericWrappedData", ObjectProxy,
                     GenericWrappedData(schema, NameParam(nameArg)))
        old == {t \in 1..Len(ts) : /\ EqualObjects(ts[t].schema, schema)
                                   /\ ts[t].name = NameParam(nameArg)}
    IN  IF ~r.ok THEN [types |-> ts, ret |-> 0, raised |-> r.err]
        ELSE IF old # {}
        THEN [types |-> ts, ret |-> CHOOSE t \in old : TRUE, raised |-> NoError]
        ELSE [types |-> Append(ts, r.cls), ret |-> Len(ts) + 1, raised |-> NoError]

\* The types after the call, and the one returned (0 when the call raised).
validated_by(ts, schema, nameArg) ==
    LET r == MetaNew("GenericWrappedData", ObjectProxy,
                     GenericWrappedData(schema, NameParam(nameArg)))
    IN  IF r.ok
        THEN [types |-> Append(ts, r.cls), ret |-> Len(ts) + 1, raised |-> NoError]
        ELSE [types |-> ts, ret |-> 0, raised |-> r.err]

(***************************************************************************)
(* Operations on an instance.  GenericWrappedData is an ObjectProxy: what  *)
(* the class and its bases do not define themselves is passed down to the  *)
(* wrapped value (lines 52 to 54), and what they define is found on the    *)
(* class first.  An outcome is a value or the exception raised.            *)
(***************************************************************************)
Outcome(e, k, n, s) == [exc |-> e, kind |-> k, n |-> n, s |-> s]

IntResult(n) == Outcome("none", "int", n, "")
BoolResult(b) == Outcome("none", "bool", IF b THEN 1 ELSE 0, "")
StrResult(s) == Outcome("none", "str", 0, s)
ObjResult(o) == Outcome("none", "object", o, "")
Raises(e) == Outcome(e, "none", 0, "")

Op(name, attr, arg) == [name |-> name, attr |-> attr, arg |-> arg]

NoOp == Op("none", "", 0)

\* The operation applied to the validated value r itself, an int.
ValueOp(r, op) ==
    CASE op.name = "getattr" ->
             IF op.attr = "real" THEN IntResult(r) ELSE Raises("AttributeError")
      [] op.name = "eq" -> BoolResult(r = op.arg)
      [] op.name = "add" -> IntResult(r + op.arg)
      [] op.name = "getitem" -> Raises("TypeError")
      [] OTHER -> Raises("none")

\* Whether the class or one of its bases below ObjectProxy defines attr in
\* its body, and the value found first along the bases.
RECURSIVE ClassDefines(_, _, _)
ClassDefines(ts, t, attr) ==
    IF t = ObjectProxy THEN FALSE
    ELSE \/ attr = "__schema__"
         \/ attr = "__name__" /\ ts[t].hasName
         \/ ClassDefines(ts, ts[t].base, attr)

RECURSIVE ClassAttr(_, _, _)
ClassAttr(ts, t, attr) ==
    IF attr = "__schema__" THEN ObjResult(ts[t].schema)
    ELSE IF ts[t].hasName THEN StrResult(ts[t].nameAttr)
    ELSE ClassAttr(ts, ts[t].base, attr)

\* Faulty variant: == compares the proxy itself, which is no int.
ProxyOp_comparesProxy(ts, t, r, op) ==
    IF op.name = "getattr" /\ ClassDefines(ts, t, op.attr)
    THEN ClassAttr(ts, t, op.attr)
    ELSE IF op.name = "eq" THEN BoolResult(FALSE)
    ELSE ValueOp(r, op)

\* The operation applied to an instance of class t that wraps r.
ProxyOp(ts, t, r, op) ==
    IF op.name = "getattr" /\ ClassDefines(ts, t, op.attr)
    THEN ClassAttr(ts, t, op.attr)
    ELSE ValueOp(r, op)

\* instance += k: the proxy passes the in-place operation down to the wrapped
\* value and keeps what it yields; an int is immutable, so that is a new value.
InPlace(inst, k) == [inst EXCEPT !.wrapped = @ + k]

(***************************************************************************)
(* State: the classes defined so far, the instances that exist, and the    *)
(* last call with what it did and the state it started from.               *)
(***************************************************************************)
VARIABLES types, instances, last

vars == <<types, instances, last>>

Idle ==
    [kind |-> "none", type |-> 0, args |-> <<>>, raised |-> NoError,
     calls |-> <<>>, inits |-> <<>>, wrapped |-> 0, schemaArg |-> 0,
     nameArg |-> "", body |-> NoBody, base |-> 0, inst |-> 0, op |-> NoOp,
     outcome |-> Raises("none"), typesBefore |-> <<>>, instancesBefore |-> <<>>]

Call(kind) ==
    [Idle EXCEPT !.kind = kind, !.typesBefore = types,
                 !.instancesBefore = instances]

Init ==
    /\ types = <<>>
    /\ instances = <<>>
    /\ last = Idle

\* A call validated_by(s) or validated_by(s, n), <<s, n>> drawn from calls.
ValidatedByFrom(calls) ==
    \E c \in calls :
        /\ LET r == validated_by(types, c[1], c[2])
           IN  /\ r.ret # 0 => Len(types) < MaxTypes
               /\ types' = r.types
               /\ last' = [Call("validated_by") EXCEPT
                              !.type = r.ret, !.raised = r.raised,
                              !.schemaArg = c[1], !.nameArg = c[2]]
        /\ UNCHANGED instances

ArgLists == {<<>>} \cup {<<v>> : v \in RawValues} \cup {<<1, 2>>}

\* T(*args), while fewer than n instances exist: the instance exists when
\* the initializer returns.
ConstructUpTo(n) ==
    \E t \in 1..Len(types), args \in ArgLists :
        /\ LET r == patched(types, t, args)
           IN  /\ r.raised = NoError => Len(instances) < n
               /\ instances' =
                     IF r.raised = NoError
                     THEN Append(instances, [type |-> t, wrapped |-> r.wrapped])
                     ELSE instances
               /\ last' = [Call("construct") EXCEPT
                              !.type = t, !.args = args, !.raised = r.raised,
                              !.calls = r.calls, !.inits = r.inits,
                              !.wrapped = r.wrapped]
        /\ UNCHANGED types

(***************************************************************************)
(* The factory: calls of validated_by and constructions.                   *)
(***************************************************************************)
FactoryCalls ==
    {<<1, Omitted>>, <<5, "Foo">>, <<2, "Foo">>, <<3, Omitted>>, <<6, Omitted>>}

ValidatedBy == ValidatedByFrom(FactoryCalls)

Construct == ConstructUpTo(MaxInstances)

Next == ValidatedBy \/ Construct

Spec == Init /\ [][Next]_vars

(***************************************************************************)
(* The metaclass: class statements with a body of the caller's own, on     *)
(* ObjectProxy or on a class defined before.                               *)
(***************************************************************************)
Bodies ==
    { Body(FALSE, 0, FALSE, "", TRUE, 1),
      Body(TRUE, 6, FALSE, "", TRUE, 1),
      Body(TRUE, 1, FALSE, "", FALSE, 0),
      Body(TRUE, 3, FALSE, "", TRUE, 1),
      Body(TRUE, 4, FALSE, "", TRUE, 0),
      Body(TRUE, 2, FALSE, "", TRUE, 2) }

\* class U(base, metaclass=ValidatedMeta): <body>
DefineClass ==
    \E body \in Bodies, base \in {ObjectProxy} \cup (1..Len(types)) :
        /\ LET r == MetaNew("U", base, body)
           IN  /\ r.ok => Len(types) < MaxTypes
               /\ types' = IF r.ok THEN Append(types, r.cls) ELSE types
               /\ last' = [Call("class") EXCEPT
                              !.type = IF r.ok THEN Len(types) + 1 ELSE 0,
                              !.raised = r.err, !.body = body, !.base = base]
        /\ UNCHANGED instances

MetaCalls == {<<1, Omitted>>, <<2, Omitted>>}

MetaValidatedBy == ValidatedByFrom(MetaCalls)

MetaConstruct == ConstructUpTo(MaxProxied)

NextMeta == MetaValidatedBy \/ DefineClass \/ MetaConstruct

SpecMeta == Init /\ [][NextMeta]_vars

(***************************************************************************)
(* The proxy: operations on the instances of generated types.              *)
(***************************************************************************)
ProxyCalls == {<<1, Omitted>>, <<2, "Foo">>}

ProxyValidatedBy == ValidatedByFrom(ProxyCalls)

ProxyConstruct == ConstructUpTo(MaxProxied)

Ops ==
    { Op("getattr", "real", 0), Op("getattr", "__name__", 0),
      Op("getattr", "__schema__", 0), Op("eq", "", 1), Op("add", "", 1),
      Op("getitem", "", 0) }

\* An operation that reads: instance.attr, instance == k, instance + k,
\* instance[k].
Apply ==
    \E i \in 1..Len(instances), op \in Ops :
        /\ last' = [Call("op") EXCEPT
                       !.inst = i, !.op = op,
                       !.outcome = ProxyOp(types, instances[i].type,
                                           instances[i].wrapped, op)]
        /\ UNCHANGED <<types, instances>>

\* instance += k
InPlaceAdd ==
    \E i \in 1..Len(instances), k \in {-1, 1} :
        /\ instances[i].wrapped + k \in RawValues
        /\ instances' = [instances EXCEPT ![i] = InPlace(@, k)]
        /\ last' = [Call("iadd") EXCEPT !.inst = i, !.op = Op("iadd", "", k)]
        /\ UNCHANGED types

NextProxy == ProxyValidatedBy \/ ProxyConstruct \/ Apply \/ InPlaceAdd

SpecProxy == Init /\ [][NextProxy]_vars

(***************************************************************************)
(* Properties.                                                             *)
(***************************************************************************)

\* The class was made by validated_by (its class statement is line 47).
Generated(t) == types[t].qualname = "GenericWrappedData"

\* The last call constructed an instance of a generated type from one value.
ConstructedGenerated ==
    /\ last.kind = "construct"
    /\ Generated(last.type)
    /\ Len(last.args) = 1

\* What the schema of the last constructed type says of the value passed.
Verdict == Validate(types[last.type].schema, last.args[1])

\* The values a schema can return.
ValidResults(schema) ==
    {Validate(schema, v).val : v \in {w \in RawValues : Validate(schema, w).ok}}

\* C1: when S.validate(v) raises e, validated_by(S)(v) raises that same e, the
\* wrapping initializer is not run, and no instance exists afterwards that
\* did not exist before.
C1_ValidationErrorPropagates ==
    (ConstructedGenerated /\ ~Verdict.ok) =>
        /\ last.raised = Verdict.err
        /\ last.inits = <<>>
        /\ instances = last.instancesBefore

C1_Witness ==
    /\ ConstructedGenerated
    /\ ~Verdict.ok
    /\ last.raised.exc = "SchemaError"

\* C2: when S.validate(v) returns r, the instance built by validated_by(S)(v)
\* wraps r, not v, also when r differs from v.
C2_WrapsValidatedResult ==
    (ConstructedGenerated /\ Verdict.ok) =>
        /\ last.raised = NoError
        /\ instances = Append(last.instancesBefore,
                              [type |-> last.type, wrapped |-> Verdict.val])

C2_Witness ==
    /\ ConstructedGenerated
    /\ Verdict.ok
    /\ Verdict.val # last.args[1]
    /\ instances[Len(instances)].wrapped = Verdict.val

C4_SchemaIdentityKept ==
    /\ (last.kind = "validated_by" /\ last.type # 0) =>
           /\ types[last.type].schema = last.schemaArg
           /\ ClassAttr(types, last.type, "__schema__") = ObjResult(last.schemaArg)
    /\ last.kind = "construct" => types = last.typesBefore
    /\ \A i \in 1..Len(instances) :
           ProxyOp(types, instances[i].type, instances[i].wrapped,
                   Op("getattr", "__schema__", 0))
               = ObjResult(types[instances[i].type].schema)

C4_Witness ==
    /\ last.kind = "construct"
    /\ last.raised # NoError
    /\ types[last.type].schema = 5
    /\ \E i, j \in 1..Len(instances) :
           /\ i # j
           /\ instances[i].type = last.type
           /\ instances[j].type = last.type

\* C5: every call of validated_by that returns, returns a type that did not
\* exist before, also for an equal schema or the same schema and name; the
\* types that existed keep their schema and their construction behaviour.
C5_FreshIndependentType ==
    (last.kind = "validated_by" /\ last.type # 0) =>
        /\ last.type \notin 1..Len(last.typesBefore)
        /\ Len(types) = Len(last.typesBefore) + 1
        /\ \A t \in 1..Len(last.typesBefore) :
               /\ types[t] = last.typesBefore[t]
               /\ \A args \in ArgLists :
                      patched(types, t, args) = patched(last.typesBefore, t, args)

C5_Witness ==
    /\ last.kind = "validated_by"
    /\ last.type = 2
    /\ types[1].schema = types[2].schema
    /\ types[1].name = types[2].name

\* The name a call of validated_by gives the type.
NameGiven == IF last.nameArg = Omitted THEN "ValidatedData" ELSE last.nameArg

\* C9 as stated: str(T) is "schema-validated data: <type_name>", type_name
\* being the name passed to validated_by or "ValidatedData".
C9_LabelAsStated ==
    (last.kind = "validated_by" /\ last.type # 0) =>
        Str(types[last.type]) = "schema-validated data: " \o NameGiven

\* C9 amended: str(T) is "<schema-validated data: type_name>", in angle
\* brackets; types that differ in name only construct alike.
C9_LabelInBrackets ==
    /\ (last.kind = "validated_by" /\ last.type # 0) =>
           Str(types[last.type]) = "<schema-validated data: " \o NameGiven \o ">"
    /\ \A t, u \in 1..Len(types) :
           (Generated(t) /\ Generated(u) /\ types[t].schema = types[u].schema) =>
               \A args \in ArgLists :
                   LET a == patched(types, t, args)
                       b == patched(types, u, args)
                   IN  a.raised = b.raised /\ a.wrapped = b.wrapped

C9_Witness ==
    /\ last.kind = "validated_by"
    /\ last.type # 0
    /\ last.nameArg = "Foo"
    /\ Str(types[last.type]) = "<schema-validated data: Foo>"
    /\ \E t \in 1..Len(types) : Str(types[t]) = "<schema-validated data: ValidatedData>"

\* The last class statement had a body that lacks a schema, or whose schema
\* is no Schema, And or Or, or that lacks an initializer.
BodyAtFault ==
    \/ ~last.body.hasSchema
    \/ ObjKind(last.body.schema) \notin {"Schema", "And", "Or"}
    \/ ~last.body.hasInit

\* C6: a class body with the validating metaclass is rejected when the type
\* is defined, and no type results, when it declares no schema, a schema that
\* is no Schema, And or Or, or no initializer; any other body defines a type.
C6_BodyCheckedAtDefinition ==
    last.kind = "class" =>
        /\ BodyAtFault =>
               /\ last.raised = AssertionError
               /\ last.type = 0
               /\ types = last.typesBefore
        /\ ~BodyAtFault =>
               /\ last.raised = NoError
               /\ last.type = Len(last.typesBefore) + 1
               /\ Len(types) = last.type
               /\ types[last.type].schema = last.body.schema
               /\ types[last.type].base = last.base

C6_Witness ==
    /\ last.kind = "class"
    /\ last.body.hasSchema
    /\ ObjKind(last.body.schema) = "int"
    /\ last.raised = AssertionError
    /\ \E t \in 1..Len(types) : ObjKind(types[t].schema) = "Or"
    /\ \E t \in 1..Len(types) : ObjKind(types[t].schema) = "And"

\* C7 as stated: a body whose initializer does not take exactly one
\* positional value besides the receiver is rejected when the type is defined.
C7_ArityCheckedAtDefinition ==
    (last.kind = "class" /\ last.body.hasInit /\ last.body.arity # 1) =>
        last.raised # NoError

\* C7 amended: such a body, its schema being one, defines a type; every
\* construction of that type fails and leaves no instance: by the assertion
\* on the argument count, by the validation error, or, when one value is
\* passed and validates, by a TypeError of the original initializer's call,
\* raised after the validation has run.
C7_ArityFailsAtConstruction ==
    /\ (last.kind = "class" /\ ~BodyAtFault /\ last.body.arity # 1) =>
           /\ last.raised = NoError
           /\ types[last.type].arity = last.body.arity
    /\ \A i \in 1..Len(instances) : types[instances[i].type].arity = 1
    /\ (last.kind = "construct" /\ types[last.type].arity # 1) =>
           /\ last.raised # NoError
           /\ instances = last.instancesBefore
           /\ Len(last.args) # 1 => last.raised = AssertionError
           /\ (Len(last.args) = 1 /\ ~Verdict.ok) => last.raised = Verdict.err
           /\ (Len(last.args) = 1 /\ Verdict.ok) =>
                  /\ last.raised = TypeError
                  /\ last.calls = <<types[last.type].schema>>

C7_Witness ==
    /\ last.kind = "construct"
    /\ types[last.type].arity = 2
    /\ Len(last.args) = 1
    /\ last.raised = TypeError
    /\ last.calls # <<>>

\* The last call constructed, from one value, an instance of a class that
\* has a schema and a one-argument initializer of its own and whose base is
\* a generated type.
ConstructedSubclass ==
    /\ last.kind = "construct"
    /\ Len(last.args) = 1
    /\ types[last.type].arity = 1
    /\ types[last.type].base # ObjectProxy
    /\ Generated(types[last.type].base)

\* C10: constructing U(v), U with schema S2 on a generated type with schema
\* S1, validates with S2 and then with S1 on S2's result; the instance wraps
\* S1.validate(S2.validate(v)); the first error raised ends the
\* construction, and S1 is not called when S2 rejects.
C10_SubclassValidatesInOrder ==
    ConstructedSubclass =>
        LET S2 == types[last.type].schema
            S1 == types[types[last.type].base].schema
            r2 == Validate(S2, last.args[1])
            r1 == Validate(S1, r2.val)
        IN  /\ ~r2.ok =>
                   /\ last.calls = <<S2>>
                   /\ last.raised = r2.err
                   /\ instances = last.instancesBefore
            /\ (r2.ok /\ ~r1.ok) =>
                   /\ last.calls = <<S2, S1>>
                   /\ last.raised = r1.err
                   /\ instances = last.instancesBefore
            /\ (r2.ok /\ r1.ok) =>
                   /\ last.calls = <<S2, S1>>
                   /\ last.raised = NoError
                   /\ instances = Append(last.instancesBefore,
                                         [type |-> last.type, wrapped |-> r1.val])

C10_Witness ==
    /\ ConstructedSubclass
    /\ last.raised = NoError
    /\ last.calls = <<3, 2>>
    /\ last.args = <<2>>
    /\ instances[Len(instances)].wrapped = 0

\* The last call was an operation on an instance, other than reading the
\* schema.
AppliedOp ==
    /\ last.kind = "op"
    /\ ~(last.op.name = "getattr" /\ last.op.attr = "__schema__")

\* The same operation on the value the instance wraps.
OnWrapped == ValueOp(instances[last.inst].wrapped, last.op)

====
